---- MODULE Spec2Model ----
(***************************************************************************)
(* The endpoint failover and retry layer of grapheneapi (class Api in      *)
(* src/grapheneapi/api.py) as a state machine.                              *)
(*                                                                         *)
(* Endpoint addresses are named by their registration position: the        *)
(* Counter of line 17 keeps insertion order and collapses duplicates, so   *)
(* a registry of n distinct addresses is the sequence <<1, ..., n>>.       *)
(*                                                                         *)
(* A transport (Websocket / Http object) is a record [addr, st]: the       *)
(* address it was constructed for and what the client last did to it.  The  *)
(* transports the client no longer references are summarised by the set    *)
(* of the st values they had when the client dropped them.                 *)
(*                                                                         *)
(* One action is one transport operation (a connect or a call) with its    *)
(* outcome, followed by all the handler code that runs up to the next      *)
(* transport operation.                                                    *)
(***************************************************************************)
EXTENDS Integers, Sequences, FiniteSets, TLC

\* ---------------------------------------------------------------- bounds
MaxUrls == 3
MaxRetries == 2
\* Cap on a failure counter (a counter grows without bound when invokes keep
\* failing after NumRetriesReached); always above num_retries + 1.
MaxCount == MaxRetries + 2

\* ------------------------------------------------------------- constants
\* self._active_url = None
None == 0
\* The transport attribute before the connection property first sets it.
NoTransport == [addr |-> None, st |-> "unset"]
\* r before line 97 assigns it.
Unbound == "unbound"
\* The calls a caller makes: name(*args, **kwargs) of __getattr__ / func.
Requests == {"get_block(5)", "get_account(1)"}
NoRequest == "none"
\* What a successful remote call returns / what an overriding hook returns.
Result == "result"
HookValue == "recovered"

\* Exceptions a transport operation can raise, as __getattr__ tells them apart.
FatalLocal == {"KeyboardInterrupt", "ValueError"}
ProtocolError == {"RPCError"}
Transient == {"OtherException"}
\* What `except Exception` of Api.connect catches: everything but
\* KeyboardInterrupt, which derives from BaseException.
ExceptionClass == {"ValueError", "RPCError", "OtherException"}

VARIABLES
    urls,               \* the keys of _url_counter in insertion order
    num_retries,        \* self.num_retries
    hook_returns,       \* post_process_exception is overridden to return normally
    _url_counter,       \* self._url_counter
    url,                \* self.url
    _active_url,        \* self._active_url
    _active_connection, \* self._active_connection
    dropped,            \* st of the transports no longer referenced, when dropped
    pc,                 \* "connect", "call", "idle", "returned", "raised", "fn_input"
    ctx,                \* "init" (in __init__), "invoke" (in func of __getattr__), "find_next"
    r,                  \* the local r of func
    err,                \* the exception that left __init__ / func, if pc = "raised"
    exc,                \* outcome of the latest transport operation ("ok" or an exception)
    fails,              \* transient failures handled since __init__ / func began
    hooks,              \* calls of post_process_exception since func began
    zero_start,         \* every counter was zero when __init__ / func began
    marked,             \* the address error_url incremented last, None if none yet
    exhausted_once,     \* find_next has raised NumRetriesReached on this client
    request,            \* name, args and kwargs func was called with
    dispatched          \* what the latest call handed to the transport

vars == <<urls, num_retries, hook_returns, _url_counter, url, _active_url,
          _active_connection, dropped, pc, ctx, r, err, exc, fails, hooks, zero_start,
          marked, exhausted_once, request, dispatched>>

config == <<urls, num_retries, hook_returns>>

Keys(cnt) == DOMAIN cnt

AllZero(cnt) == \A k \in Keys(cnt) : cnt[k] = 0

\* -------------------------------------------------------- pure operations

\* Api.find_next, the list comprehension: the keys, in insertion order, with
\* num_retries >= 0, v <= num_retries and (k != self.url or one key only).
eligible_strict(cnt, u, R) ==
    SelectSeq(urls, LAMBDA k : R >= 0 /\ cnt[k] < R
                               /\ (k # u \/ Cardinality(Keys(cnt)) = 1))

eligible_any(cnt, u, R) ==
    SelectSeq(urls, LAMBDA k : R >= 0 /\ cnt[k] <= R)

eligible_other(cnt, u, R) ==
    SelectSeq(urls, LAMBDA k : R >= 0 /\ cnt[k] <= R /\ k # u)

eligible_lenient(cnt, u, R) ==
    SelectSeq(urls, LAMBDA k : R >= 0 /\ cnt[k] <= R + 1
                               /\ (k # u \/ Cardinality(Keys(cnt)) = 1))

eligible(cnt, u, R) ==
    SelectSeq(urls, LAMBDA k : R >= 0 /\ cnt[k] <= R
                               /\ (k # u \/ Cardinality(Keys(cnt)) = 1))

\* Api.find_next raises NumRetriesReached
find_next_raises(cnt, u, R) == Len(eligible(cnt, u, R)) = 0

\* Api.find_next returns urls[0]
find_next(cnt, u, R) == eligible(cnt, u, R)[1]

\* Api.reset_counter
reset_counter_active(cnt) == [cnt EXCEPT ![url] = 0]

reset_counter_none(cnt) == cnt

reset_counter(cnt) == [k \in Keys(cnt) |-> 0]

\* Api.error_url
error_url_skipped(cnt, u) == cnt

error_url_first(cnt, u) == [cnt EXCEPT ![1] = cnt[1] + 1]

error_url(cnt, u) ==
    IF u # None /\ u \in Keys(cnt) THEN [cnt EXCEPT ![u] = cnt[u] + 1] ELSE cnt

\* Api.connection: the transport the property returns; a new one, built for
\* self.url, whenever self._active_url != self.url.
connection(c, u, au) ==
    IF au # u THEN [addr |-> u, st |-> "new"] ELSE c

\* Api.connection: the assignment of lines 41/43 stops referencing the
\* transport held so far; d collects the st of every transport so dropped.
connection_drops(c, d, u, au) ==
    IF au # u /\ c # NoTransport THEN d \cup {c.st} ELSE d

\* Api.post_process_exception, default (re-raise) or overridden (return).
post_process_raises == ~hook_returns

\* `return r` of line 112
return_raises(rv) == rv = Unbound

\* The except clauses of func, in order: KeyboardInterrupt and ValueError
\* re-raise, RPCError goes to the hook, any other Exception fails over.
classify_rpc_transient(e) ==
    IF e \in FatalLocal THEN "fatal-local" ELSE "transient-connectivity"

classify(e) ==
    IF e \in FatalLocal THEN "fatal-local"
    ELSE IF e \in ProtocolError THEN "protocol-error"
    ELSE "transient-connectivity"

\* Http.rpcexec, as its docstring declares it: a response that is not proper
\* JSON raises ValueError, an error answer raises RPCError; a status other
\* than 200 reaches the bare `raise` of line 31, a RuntimeError.
malformed_response_raises == "ValueError"
error_response_raises == "RPCError"
bad_status_raises == "OtherException"

\* `except Exception` of Api.connect
connect_catches(e) == e \in ExceptionClass

Exceptions == FatalLocal \cup ProtocolError \cup Transient

\* Transport.connect(), Transport.disconnect() as seen by the client
connected(c) == [c EXCEPT !.st = "connected"]
connect_failed(c) == [c EXCEPT !.st = "failed"]
disconnected(c) == [c EXCEPT !.st = "disconnected"]

\* ------------------------------------------------------------------ steps

\* Api.next after error_url has produced cnt: disconnect what the connection
\* property returns, then find_next; NumRetriesReached leaves self.url as it
\* is and propagates, otherwise self.url is the address found and connect()
\* runs next.  c, d: the transport attribute and the dropped transports when
\* next() is entered.
next(c, d, cnt) ==
    /\ _active_connection' = disconnected(connection(c, url, _active_url))
    /\ dropped' = connection_drops(c, d, url, _active_url)
    /\ _url_counter' = cnt
    /\ IF find_next_raises(cnt, url, num_retries)
       THEN /\ url' = url
            /\ pc' = "raised"
            /\ err' = "NumRetriesReached"
            /\ exhausted_once' = TRUE
       ELSE /\ url' = find_next(cnt, url, num_retries)
            /\ pc' = "connect"
            /\ err' = err
            /\ exhausted_once' = exhausted_once

\* Api.connect, self.connection.connect() succeeds: lines 48, 53, 54; every
\* enclosing connect() frame then runs its own line 53 to the same effect.
ConnectOk ==
    /\ pc = "connect"
    /\ _active_connection' = connected(connection(_active_connection, url, _active_url))
    /\ dropped' = connection_drops(_active_connection, dropped, url, _active_url)
    /\ _active_url' = url
    /\ exc' = "ok"
    /\ pc' = IF ctx = "init" THEN "idle" ELSE "call"
    /\ UNCHANGED <<config, _url_counter, url, ctx, r, err, fails, hooks, zero_start,
                   marked, exhausted_once, request, dispatched>>

\* Api.connect, self.connection.connect() raises an Exception: lines 49-52.
ConnectFails ==
    /\ pc = "connect"
    /\ _url_counter[url] < MaxCount
    /\ \E e \in Exceptions :
        /\ connect_catches(e)
        /\ exc' = e
        /\ fails' = fails + 1
        /\ next(connect_failed(connection(_active_connection, url, _active_url)),
                connection_drops(_active_connection, dropped, url, _active_url),
                error_url(_url_counter, url))
    /\ marked' = url
    /\ UNCHANGED <<config, _active_url, ctx, r, hooks, zero_start, request, dispatched>>

\* Api.connect, self.connection.connect() raises what `except Exception`
\* does not catch: it propagates through every frame.
ConnectInterrupted ==
    /\ pc = "connect"
    /\ \E e \in Exceptions :
        /\ ~connect_catches(e)
        /\ exc' = e
        /\ err' = e
    /\ _active_connection' = connect_failed(connection(_active_connection, url, _active_url))
    /\ dropped' = connection_drops(_active_connection, dropped, url, _active_url)
    /\ pc' = "raised"
    /\ UNCHANGED <<config, _url_counter, url, _active_url, ctx, r, fails, hooks, zero_start,
                   marked, exhausted_once, request, dispatched>>

\* A caller invokes a remote method on a constructed client: func begins.
Invoke ==
    /\ pc \in {"idle", "returned", "raised"}
    /\ ctx \in {"init", "invoke"}
    /\ ~(ctx = "init" /\ pc = "raised")
    /\ pc' = "call"
    /\ ctx' = "invoke"
    /\ r' = Unbound
    /\ err' = "none"
    /\ exc' = "none"
    /\ fails' = 0
    /\ hooks' = 0
    /\ zero_start' = AllZero(_url_counter)
    /\ request' \in Requests
    /\ dispatched' = NoRequest
    /\ UNCHANGED <<config, _url_counter, url, _active_url, _active_connection, dropped,
                   marked, exhausted_once>>

\* func, the call returns: lines 95, 97-99, 112.
CallOk ==
    /\ pc = "call"
    /\ _active_connection' = connection(_active_connection, url, _active_url)
    /\ dropped' = connection_drops(_active_connection, dropped, url, _active_url)
    /\ exc' = "ok"
    /\ r' = Result
    /\ _url_counter' = reset_counter(_url_counter)
    /\ IF return_raises(r')
       THEN pc' = "raised" /\ err' = "UnboundLocalError"
       ELSE pc' = "returned" /\ err' = err
    /\ dispatched' = request
    /\ UNCHANGED <<config, url, _active_url, ctx, fails, hooks, zero_start,
                   marked, exhausted_once, request>>

\* func, the call raises KeyboardInterrupt or ValueError: lines 100-103.
CallFatal ==
    /\ pc = "call"
    /\ \E e \in Exceptions :
        /\ classify(e) = "fatal-local"
        /\ exc' = e
        /\ err' = e
    /\ _active_connection' = connection(_active_connection, url, _active_url)
    /\ dropped' = connection_drops(_active_connection, dropped, url, _active_url)
    /\ pc' = "raised"
    /\ dispatched' = request
    /\ UNCHANGED <<config, _url_counter, url, _active_url, ctx, r, fails, hooks, zero_start,
                   marked, exhausted_once, request>>

\* func, the call raises RPCError: lines 104-106, then line 112.
CallRPCError ==
    /\ pc = "call"
    /\ \E e \in Exceptions :
        /\ classify(e) = "protocol-error"
        /\ exc' = e
        /\ hooks' = hooks + 1
        /\ IF post_process_raises
           THEN err' = e
           ELSE IF return_raises(r) THEN err' = "UnboundLocalError" ELSE err' = err
    /\ _active_connection' = connection(_active_connection, url, _active_url)
    /\ dropped' = connection_drops(_active_connection, dropped, url, _active_url)
    /\ pc' = IF post_process_raises \/ return_raises(r) THEN "raised" ELSE "returned"
    /\ dispatched' = request
    /\ UNCHANGED <<config, _url_counter, url, _active_url, ctx, r, fails, zero_start,
                   marked, exhausted_once, request>>

\* func, the call raises any other Exception: lines 107-110.
CallFails ==
    /\ pc = "call"
    /\ _url_counter[url] < MaxCount
    /\ \E e \in Exceptions :
        /\ classify(e) = "transient-connectivity"
        /\ exc' = e
        /\ fails' = fails + 1
        /\ next(connection(_active_connection, url, _active_url),
                connection_drops(_active_connection, dropped, url, _active_url),
                error_url(_url_counter, url))
    /\ marked' = url
    /\ dispatched' = request
    /\ UNCHANGED <<config, _active_url, ctx, r, hooks, zero_start, request>>

\* Api.__init__ up to line 30, for every registry size, num_retries and hook.
Init ==
    /\ urls \in {[i \in 1..n |-> i] : n \in 1..MaxUrls}
    /\ num_retries \in 0..MaxRetries
    /\ hook_returns \in BOOLEAN
    /\ _url_counter = [k \in 1..Len(urls) |-> 0]
    /\ url = urls[1]
    /\ _active_url = None
    /\ _active_connection = NoTransport
    /\ dropped = {}
    /\ pc = "connect"
    /\ ctx = "init"
    /\ r = Unbound
    /\ err = "none"
    /\ exc = "none"
    /\ fails = 0
    /\ hooks = 0
    /\ zero_start = TRUE
    /\ marked = None
    /\ exhausted_once = FALSE
    /\ request = NoRequest
    /\ dispatched = NoRequest

Next ==
    \/ ConnectOk
    \/ ConnectFails
    \/ ConnectInterrupted
    \/ Invoke
    \/ CallOk
    \/ CallFatal
    \/ CallRPCError
    \/ CallFails

Spec == Init /\ [][Next]_vars

\* A transport operation that was started returns, with some outcome.
TransportReturns ==
    \/ ConnectOk
    \/ ConnectFails
    \/ ConnectInterrupted
    \/ CallOk
    \/ CallFatal
    \/ CallRPCError
    \/ CallFails

\* The client when no connect() or call blocks forever; callers need not
\* invoke again.
FairSpec == Spec /\ WF_vars(TransportReturns)

\* ------------------------------------------- find_next on arbitrary inputs

\* Api.find_next called on a registry with arbitrary counters, any registered
\* current address and any num_retries >= 0.
InitFindNext ==
    /\ urls \in {[i \in 1..n |-> i] : n \in 1..MaxUrls}
    /\ num_retries \in 0..MaxRetries
    /\ hook_returns = FALSE
    /\ _url_counter \in [1..Len(urls) -> 0..MaxCount]
    /\ url \in 1..Len(urls)
    /\ _active_url = url
    /\ _active_connection = [addr |-> url, st |-> "connected"]
    /\ dropped = {}
    /\ pc = "fn_input"
    /\ ctx = "find_next"
    /\ r = None
    /\ err = "none"
    /\ exc = "none"
    /\ fails = 0
    /\ hooks = 0
    /\ zero_start = AllZero(_url_counter)
    /\ marked = None
    /\ exhausted_once = FALSE
    /\ request = NoRequest
    /\ dispatched = NoRequest

\* Api.find_next reaches line 72.
FindNextReturns ==
    /\ pc = "fn_input"
    /\ ~find_next_raises(_url_counter, url, num_retries)
    /\ r' = find_next(_url_counter, url, num_retries)
    /\ pc' = "returned"
    /\ UNCHANGED <<config, _url_counter, url, _active_url, _active_connection,
                   dropped, ctx, err, exc, fails, hooks, zero_start,
                   marked, exhausted_once, request, dispatched>>

\* Api.find_next reaches line 70.
FindNextRaises ==
    /\ pc = "fn_input"
    /\ find_next_raises(_url_counter, url, num_retries)
    /\ err' = "NumRetriesReached"
    /\ pc' = "raised"
    /\ UNCHANGED <<config, _url_counter, url, _active_url, _active_connection,
                   dropped, ctx, r, exc, fails, hooks, zero_start,
                   marked, exhausted_once, request, dispatched>>

NextFindNext ==
    \/ FindNextReturns
    \/ FindNextRaises

SpecFindNext == InitFindNext /\ [][NextFindNext]_vars

\* ------------------------------- error_url, reset_counter, then find_next

\* A registry with arbitrary counters whose active address is about to fail.
InitRoundTrip ==
    /\ urls \in {[i \in 1..n |-> i] : n \in 1..MaxUrls}
    /\ num_retries \in 0..MaxRetries
    /\ hook_returns = FALSE
    /\ _url_counter \in [1..Len(urls) -> 0..MaxCount]
    /\ url \in 1..Len(urls)
    /\ _active_url = url
    /\ _active_connection = [addr |-> url, st |-> "connected"]
    /\ dropped = {}
    /\ pc = "rt_start"
    /\ ctx = "round_trip"
    /\ r = None
    /\ err = "none"
    /\ exc = "none"
    /\ fails = 0
    /\ hooks = 0
    /\ zero_start = AllZero(_url_counter)
    /\ marked = None
    /\ exhausted_once = FALSE
    /\ request = NoRequest
    /\ dispatched = NoRequest

\* Api.error_url on the active address.
MarkFailed ==
    /\ pc = "rt_start"
    /\ _url_counter' = error_url(_url_counter, url)
    /\ marked' = url
    /\ pc' = "rt_marked"
    /\ UNCHANGED <<config, url, _active_url, _active_connection, dropped, ctx, r, err,
                   exc, fails, hooks, zero_start, exhausted_once, request, dispatched>>

\* Api.reset_counter.
ResetAll ==
    /\ pc = "rt_marked"
    /\ _url_counter' = reset_counter(_url_counter)
    /\ pc' = "rt_reset"
    /\ UNCHANGED <<config, url, _active_url, _active_connection, dropped, ctx, r, err,
                   exc, fails, hooks, zero_start, marked, exhausted_once, request,
                   dispatched>>

\* Any registered address is the active one when find_next is called next.
SetCurrent ==
    /\ pc = "rt_reset"
    /\ url' \in Keys(_url_counter)
    /\ pc' = "fn_input"
    /\ UNCHANGED <<config, _url_counter, _active_url, _active_connection, dropped, ctx,
                   r, err, exc, fails, hooks, zero_start, marked, exhausted_once,
                   request, dispatched>>

NextRoundTrip ==
    \/ MarkFailed
    \/ ResetAll
    \/ SetCurrent
    \/ FindNextReturns

SpecRoundTrip == InitRoundTrip /\ [][NextRoundTrip]_vars

\* ------------------------------------------------------------------ claims

\* The predicate of the find_next contract: counter <= max_retries and the
\* address differs from the current one or is the only one registered.
Satisfies(k) ==
    /\ _url_counter[k] <= num_retries
    /\ (k # url \/ Len(urls) = 1)

\* C1: find_next returns the first address in registration order whose
\* counter is <= max_retries and which differs from the current address or is
\* the only registered address; it raises NumRetriesReached exactly when no
\* address satisfies that predicate.
C1_FindNextContract ==
    ctx = "find_next" =>
        /\ pc = "returned" =>
              \E i \in 1..Len(urls) :
                  /\ urls[i] = r
                  /\ Satisfies(urls[i])
                  /\ \A j \in 1..(i - 1) : ~Satisfies(urls[j])
        /\ pc = "raised" =>
              /\ err = "NumRetriesReached"
              /\ \A i \in 1..Len(urls) : ~Satisfies(urls[i])

\* find_next skipped the first registered address, which is within its retry
\* budget, because it is the current one, and returned a later address.
C1_Witness ==
    /\ ctx = "find_next"
    /\ pc = "returned"
    /\ Len(urls) = 3
    /\ url = urls[1]
    /\ _url_counter[urls[1]] <= num_retries
    /\ _url_counter[urls[2]] > num_retries
    /\ r = urls[3]

\* The transport the connection property hands out in the current state.
InUse == connection(_active_connection, url, _active_url)

\* An invoke, or the constructor, has ended with NumRetriesReached.
Exhausted == pc = "raised" /\ err = "NumRetriesReached"

\* C2: whenever an invoke returns a result, every registered endpoint's
\* failure counter is zero, however many failures were counted before.
C2_SuccessResetsAll ==
    (ctx = "invoke" /\ pc = "returned") => AllZero(_url_counter)

\* An invoke returned after two transient failures of its own, begun while
\* counters of earlier failures were still standing.
C2_Witness ==
    /\ ctx = "invoke"
    /\ pc = "returned"
    /\ fails >= 2
    /\ ~zero_start

\* C3: with more than one registered endpoint, the transport of the attempt
\* that immediately follows a transient failure is bound to another endpoint
\* than the transport the failed attempt was made on.
C3_NeverReselectFailed ==
    [][(/\ Len(urls) > 1
        /\ pc \in {"connect", "call"}
        /\ fails' = fails + 1
        /\ pc' = "connect")
       => connection(_active_connection', url', _active_url').addr # InUse.addr]_vars

\* C4 as stated: from zero counters and N >= 2 endpoints, an invoke whose
\* attempts all fail absorbs exactly N*(R+1) - 1 failures before
\* NumRetriesReached.
C4_AbsorbsExactly ==
    (Len(urls) >= 2 /\ ctx = "invoke" /\ zero_start /\ Exhausted)
        => fails - 1 = Len(urls) * (num_retries + 1) - 1

\* C4 amended: the number absorbed lies between (N-1)*(R+1) and
\* N*(R+1) - 1, and equals N*(R+1) - 1 when N = 2 or R = 0.
C4_AbsorbsBetween ==
    (Len(urls) >= 2 /\ ctx = "invoke" /\ zero_start /\ Exhausted)
        => /\ fails - 1 <= Len(urls) * (num_retries + 1) - 1
           /\ fails - 1 >= (Len(urls) - 1) * (num_retries + 1)
           /\ (Len(urls) = 2 \/ num_retries = 0)
                 => fails - 1 = Len(urls) * (num_retries + 1) - 1

\* Three endpoints, one retry: NumRetriesReached on the fifth failure, with
\* the last endpoint failed once only.
C4_Witness ==
    /\ Len(urls) = 3
    /\ num_retries = 1
    /\ ctx = "invoke"
    /\ zero_start
    /\ Exhausted
    /\ fails = 5
    /\ _url_counter[url] = 1

\* C5: with one registered endpoint and a zero counter at the start, an
\* invoke re-selects that endpoint after each of its first R transient
\* failures and raises NumRetriesReached on failure R+1.
C5_SingleEndpoint ==
    (Len(urls) = 1 /\ ctx = "invoke" /\ zero_start)
        => /\ pc = "connect" => (fails \in 1..num_retries /\ url = urls[1])
           /\ Exhausted => fails = num_retries + 1
           /\ fails > num_retries => Exhausted

\* The sole endpoint was retried twice and gave up on the third failure.
C5_Witness ==
    /\ Len(urls) = 1
    /\ num_retries = 2
    /\ ctx = "invoke"
    /\ zero_start
    /\ Exhausted
    /\ fails = 3

\* C6: a fatal-local error raised by the call step or by the connect step
\* propagates at once: no counter is incremented, the active address is
\* unchanged and the transport is neither disconnected nor replaced.
C6_FatalLocalPropagates ==
    [][(pc \in {"connect", "call"} /\ exc' \in FatalLocal)
       => /\ pc' = "raised"
          /\ err' = exc'
          /\ _url_counter' = _url_counter
          /\ url' = url
          /\ _active_connection'.st # "disconnected"]_vars

\* C7: a call attempt that raises RPCError reaches the hook exactly once,
\* changes no counter, keeps the active address and the transport the call
\* was made on, and is the last attempt of the invoke.
C7_ProtocolErrorNoFailover ==
    [][(pc = "call" /\ exc' \in ProtocolError)
       => /\ hooks' = 1
          /\ fails' = fails
          /\ _url_counter' = _url_counter
          /\ url' = url
          /\ _active_url' = _active_url
          /\ _active_connection' = InUse
          /\ pc' \in {"raised", "returned"}]_vars

\* An invoke ended with RPCError after a failover; the counter of the
\* failed endpoint still stands.
C7_Witness ==
    /\ ctx = "invoke"
    /\ pc = "raised"
    /\ err = "RPCError"
    /\ hooks = 1
    /\ fails > 0
    /\ ~AllZero(_url_counter)

\* C8: with a hook that returns normally, an invoke that hit a protocol
\* error returns the value the hook recovered.
C8_HookRecovers ==
    (ctx = "invoke" /\ hook_returns /\ hooks > 0 /\ pc \in {"returned", "raised"})
        => (pc = "returned" /\ r = HookValue)

\* C9: the transport the client connects or calls is the one constructed
\* for the current active address.
C9_TransportMatchesAddress ==
    pc \in {"connect", "call"} => InUse.addr = url

\* C10: at most one transport is live (no transport but the one the client
\* references is connected), and every transport the client has replaced
\* was disconnected before its replacement was constructed.
C10_OldDisconnectedFirst ==
    /\ "connected" \notin dropped
    /\ \A st \in dropped : st = "disconnected"

\* No registered address satisfies the find_next predicate.
NoneSatisfies == \A i \in 1..Len(urls) : ~Satisfies(urls[i])

\* C11: construction starts on the first configured address; a failed connect
\* does not make the constructor raise but marks the address and moves on;
\* NumRetriesReached leaves the constructor only when no address is eligible,
\* and otherwise construction ends on an address whose connect succeeded.
\* (A KeyboardInterrupt is a cancellation, not a connect failure.)
C11_ConstructorFailsOver ==
    ctx = "init" =>
        /\ (pc = "connect" /\ fails = 0) => url = urls[1]
        /\ pc \in {"connect", "idle", "raised"}
        /\ (pc = "raised" /\ exc # "KeyboardInterrupt")
              => (err = "NumRetriesReached" /\ fails > 0 /\ NoneSatisfies)
        /\ pc = "idle"
              => /\ exc = "ok"
                 /\ _active_url = url
                 /\ _active_connection = [addr |-> url, st |-> "connected"]

\* Construction ended on the third address after the connects to the first
\* two failed.
C11_Witness ==
    /\ ctx = "init"
    /\ pc = "idle"
    /\ fails = 2
    /\ url = 3
    /\ _url_counter[1] = 1
    /\ _url_counter[2] = 1

\* C12: a call that fails because the endpoint answered with a malformed
\* (non-JSON) response is handled as a transient failure: the active
\* endpoint is marked failed and the client fails over (or raises
\* NumRetriesReached when nothing is eligible) instead of aborting.
C12_MalformedResponseFailsOver ==
    [][(pc = "call" /\ exc' = malformed_response_raises)
       => /\ fails' = fails + 1
          /\ _url_counter'[url] = _url_counter[url] + 1
          /\ (pc' = "connect" \/ Exhausted')]_vars

\* __init__ or func is waiting for a transport operation.
Attempting == pc \in {"connect", "call"}

\* How an invoke that has ended ended: DONE, ABORTED on a fatal-local error,
\* ABORTED on a protocol error (after the hook), or NumRetriesReached.
EndedAs ==
    IF pc = "returned" /\ exc = "ok" THEN "DONE"
    ELSE IF Exhausted /\ exc \in ExceptionClass THEN "NoEligibleEndpoint"
    ELSE IF pc = "raised" /\ exc \in FatalLocal THEN "ABORTED"
    ELSE IF pc = "raised" /\ exc \in ProtocolError /\ hooks = 1 THEN "ABORTED"
    ELSE "other"

\* C13: every invoke terminates when each transport operation returns: at
\* most N*(R+1) transient failures are handled in one invoke, an invoke that
\* is attempting eventually stops attempting, and it then has ended as DONE,
\* ABORTED or NumRetriesReached.
C13_InvokeTerminates ==
    /\ [](ctx = "invoke" => fails <= Len(urls) * (num_retries + 1))
    /\ []((ctx = "invoke" /\ ~Attempting)
            => EndedAs \in {"DONE", "ABORTED", "NoEligibleEndpoint"})
    /\ (ctx = "invoke" /\ Attempting) ~> (ctx = "invoke" /\ ~Attempting)

\* An invoke that began with three fresh endpoints and two retries ended
\* with NumRetriesReached after the most failures it can handle.
C13_Witness ==
    /\ ctx = "invoke"
    /\ Exhausted
    /\ Len(urls) = 3
    /\ num_retries = 2
    /\ fails >= 7

\* The addresses find_next has selected since func began: one per handled
\* failure, but for the failure on which it raised NumRetriesReached.
Selections == fails - (IF Exhausted THEN 1 ELSE 0)

\* An address find_next has just selected had failed at most max_retries
\* times: it is attempted once and retried at most max_retries times.
SelectedWithinBudget ==
    (pc = "connect" /\ fails > 0) => _url_counter[url] <= num_retries

\* C14 as stated: within one invoke at most max_retries * endpoint_count
\* endpoint switches are made, each address being retried at most
\* max_retries times before it is excluded.
C14_SwitchesAtMostRN ==
    /\ ctx = "invoke" => Selections <= num_retries * Len(urls)
    /\ SelectedWithinBudget

\* C14 amended: within one invoke at most (max_retries + 1) * endpoint_count
\* - 1 endpoint switches are made, each address being retried at most
\* max_retries times before it is excluded.
C14_SwitchesBounded ==
    /\ ctx = "invoke" => Selections <= (num_retries + 1) * Len(urls) - 1
    /\ SelectedWithinBudget

\* Two endpoints, one retry: a third switch within one invoke.
C14_Witness ==
    /\ ctx = "invoke"
    /\ Len(urls) = 2
    /\ num_retries = 1
    /\ pc = "connect"
    /\ Selections = 3

\* The registration positions find_next may select from when every counter
\* is within budget: those of another address than the current one, or of
\* the only address.
Candidates == {i \in 1..Len(urls) : urls[i] # url \/ Len(urls) = 1}

\* C15: after mark_failed(A) and then reset_all(), A is eligible again at
\* once: find_next does not raise, and it returns A whenever A is the first
\* address in registration order that differs from the current address (or
\* is the only address).
C15_RoundTrip ==
    ctx = "round_trip" =>
        /\ pc = "fn_input" => ~find_next_raises(_url_counter, url, num_retries)
        /\ pc = "returned" =>
              /\ _url_counter[marked] = 0
              /\ \A i \in Candidates :
                    (urls[i] = marked /\ \A j \in Candidates : i <= j) => r = marked

\* With the first address current, find_next returned the second address
\* right after it had been marked failed and the counters reset.
C15_Witness ==
    /\ ctx = "round_trip"
    /\ pc = "returned"
    /\ num_retries = 0
    /\ Len(urls) = 3
    /\ url = urls[1]
    /\ marked = urls[2]
    /\ r = marked

\* C16: when a call on active address A fails transiently and an endpoint
\* is still eligible, exactly A's counter is incremented by one; the
\* transport the call was made on is disconnected (it stays the client's
\* transport and nothing else is dropped); find_next chooses the new active address and the client goes on
\* to connect; every attempt dispatches the request func was called with.
C16_TransientFailureEffect ==
    /\ [][(pc = "call" /\ fails' = fails + 1 /\ ~Exhausted')
          => /\ _url_counter' = [_url_counter EXCEPT ![url] = @ + 1]
             /\ _active_connection' = disconnected(InUse)
             /\ dropped' = connection_drops(_active_connection, dropped, url, _active_url)
             /\ dispatched' = request
             /\ pc' = "connect"
             /\ _url_counter'[url'] <= num_retries
             /\ (url' # url \/ Len(urls) = 1)]_vars
    /\ [][(pc = "call" /\ pc' # "call") => (dispatched' = request /\ request' = request)]_vars
    /\ [][Attempting => request' = request]_vars

\* C17: in every reachable state the registry's keys are exactly the
\* addresses given at construction, every counter is a non-negative integer
\* and the active address is a key; a step changes the counters only by
\* adding one to the active address's counter on a failure classified
\* transient-connectivity, or by setting them all to zero when a call has
\* succeeded.
C17_RegistryInvariants ==
    /\ [](/\ Keys(_url_counter) = {urls[i] : i \in 1..Len(urls)}
          /\ \A k \in Keys(_url_counter) : _url_counter[k] \in Nat
          /\ url \in Keys(_url_counter))
    /\ [][_url_counter' # _url_counter
          => \/ /\ classify(exc') = "transient-connectivity"
                /\ _url_counter' = [_url_counter EXCEPT ![url] = @ + 1]
             \/ /\ pc = "call" /\ exc' = "ok"
                /\ AllZero(_url_counter')]_vars

\* C18: whenever a call is about to be dispatched (line 95-97), the transport
\* the connection property hands out is connected: it is never one the
\* client has disconnected and not reconnected since, whatever invokes came
\* before.
C18_CallOnConnectedTransport ==
    pc = "call" => InUse.st = "connected"

\* C19: when NumRetriesReached is raised the active address is still the
\* address that failed last and the counters are those after its increment,
\* none reset, so no address satisfies the find_next predicate; while none
\* does, every handled failure raises NumRetriesReached again with the
\* active address unchanged, no other step changes the active address or
\* makes an address eligible, and a successful call does make one eligible.
C19_ExhaustionPersists ==
    /\ [](Exhausted => (url = marked /\ NoneSatisfies))
    /\ [][(fails' = fails + 1 /\ Exhausted')
          => /\ url' = url
             /\ _url_counter' = [_url_counter EXCEPT ![url] = @ + 1]]_vars
    /\ [][(NoneSatisfies /\ fails' = fails + 1) => Exhausted']_vars
    /\ [][(NoneSatisfies /\ ~(pc = "call" /\ exc' = "ok"))
          => (NoneSatisfies' /\ url' = url)]_vars
    /\ [][(pc = "call" /\ exc' = "ok") => ~NoneSatisfies']_vars

\* A second invoke in a row has ended with NumRetriesReached on its first
\* attempt, after an invoke that ended the same way.
C19_Witness ==
    /\ Exhausted
    /\ ctx = "invoke"
    /\ fails = 1
    /\ ~zero_start
    /\ _url_counter[url] = num_retries + 2
    /\ Len(urls) >= 2

\* C20: as long as NumRetriesReached has not been raised on the client, every
\* registered address's failure counter is at most num_retries + 1.
C20_CountersBounded ==
    ~exhausted_once => \A k \in Keys(_url_counter) : _url_counter[k] <= num_retries + 1

\* An address has used up its budget (counter num_retries + 1, num_retries
\* >= 1) and the client has moved on to another address without
\* NumRetriesReached ever having been raised.
C20_Witness ==
    /\ ~exhausted_once
    /\ num_retries >= 1
    /\ pc = "call"
    /\ \E k \in Keys(_url_counter) : k # url /\ _url_counter[k] = num_retries + 1

====
